---- MODULE Spec2Model ----
(***************************************************************************)
(* Model of custom_components/mqtt_media_player/config_flow.py: the setup  *)
(* wizard (MqttMediaPlayerConfigFlow) of the MQTT media player             *)
(* integration, its discovery routine and its fetch routine, run by        *)
(* several wizard sessions over one shared entry store.                    *)
(*                                                                         *)
(* Strings of the program (device names, display names, unique ids,        *)
(* labels) are sequences of one-character strings.  An optional value      *)
(* (a key a JSON object may lack) is a set: {} when absent, {x} when x.    *)
(***************************************************************************)
EXTENDS Integers, Sequences, FiniteSets, TLC

\* ------------------------------------------------------------------ bounds
NumSessions == 2    \* wizard sessions, each run once
MaxMsgs == 2        \* messages the bus delivers to wait windows, in total

Sessions == 1..NumSessions

\* --------------------------------------------------------------- the data
Letters == {"a", "b", "n"}
Digits == {"1"}

\* device names that occur as the topic's second-to-last segment
DeviceNames == {<<"a">>, <<"b", "_">>}
\* names a user may type in the manual form
TypedNames == DeviceNames \cup {<<"_", "-">>, <<"a", "/">>}
\* dict.get(key, default) on an optional value
Get(opt, default) == IF opt = {} THEN default ELSE CHOOSE x \in opt : TRUE

\* JSON values: an object with its unique_id and name keys, ok = it has what
\* MQTT_CONFIG_SCHEMA requires, truthy = Python truthiness ({} is falsy);
\* validated marks the output of MQTT_CONFIG_SCHEMA.
Object(uid, name, ok) ==
    [type |-> "object", truthy |-> TRUE, unique_id |-> uid, name |-> name,
     ok |-> ok, validated |-> FALSE]

\* {}
EmptyObject ==
    [type |-> "object", truthy |-> FALSE, unique_id |-> {}, name |-> {},
     ok |-> FALSE, validated |-> FALSE]

\* objects with and without a unique_id, with and without a name, that the
\* schema accepts and that it rejects
JsonObjects ==
    {EmptyObject,
     Object({}, {<<"n">>}, TRUE),
     Object({<<"a">>}, {}, TRUE),
     Object({<<"a">>}, {<<"n">>}, FALSE)}

\* a JSON value that is not an object (a number, a string, a list)
JsonScalars ==
    {[type |-> "scalar", truthy |-> TRUE, unique_id |-> {}, name |-> {},
      ok |-> FALSE, validated |-> FALSE]}

JsonValues == JsonObjects \cup JsonScalars

\* message payloads: JSON text of a value, or text that is not JSON
Payloads ==
    [parseable : {TRUE}, value : JsonValues]
        \cup {[parseable |-> FALSE, value |-> EmptyObject]}

\* json.loads: [ok, value]; ok = FALSE stands for json.JSONDecodeError
JsonLoads(payload) == [ok |-> payload.parseable, value |-> payload.value]

\* MQTT_CONFIG_SCHEMA(config): [ok, value]; ok = FALSE stands for vol.Invalid
MQTT_CONFIG_SCHEMA(config) ==
    IF config.type = "object" /\ config.ok
    THEN [ok |-> TRUE, value |-> [config EXCEPT !.validated = TRUE]]
    ELSE [ok |-> FALSE, value |-> config]

\* str.isalnum() of one character
IsAlnumChar(c) == c \in Letters \cup Digits

\* str.replace(ch, "")
RECURSIVE Remove(_, _)
Remove(str, ch) ==
    IF str = <<>> THEN <<>>
    ELSE IF Head(str) = ch THEN Remove(Tail(str), ch)
         ELSE <<Head(str)>> \o Remove(Tail(str), ch)

\* str.isalnum(): non-empty and every character alphanumeric
IsAlnum(str) == str # <<>> /\ \A i \in 1..Len(str) : IsAlnumChar(str[i])

\* variant: the name is only required to be non-empty
ValidDeviceNameNonEmpty(device_name) == device_name # <<>>

\* device_name.replace("_", "").replace("-", "").isalnum()
ValidDeviceName(device_name) == IsAlnum(Remove(Remove(device_name, "_"), "-"))

Manual == <<"m", "a", "n", "u", "a", "l">>
ManualLabel == <<"Manual configuration">>
ManualOption == [value |-> Manual, label |-> ManualLabel]

\* variant: the label is built from the device name alone
DeviceLabelFromTopic(name, device_name) ==
    device_name \o <<" ", "(">> \o device_name \o <<")">>

\* f"{device_info['name']} ({device_name})"
DeviceLabel(name, device_name) == name \o <<" ", "(">> \o device_name \o <<")">>

\* self._discovered_devices is a dict in insertion order: a sequence of
\* [device_name, name, config, unique_id] with one element per key
DictHas(devices, device_name) ==
    \E i \in 1..Len(devices) : devices[i].device_name = device_name

DictGet(devices, device_name) ==
    devices[CHOOSE i \in 1..Len(devices) : devices[i].device_name = device_name]

\* variant: an assignment to a key already there is lost
DictSetKeepsFirst(devices, info) ==
    IF DictHas(devices, info.device_name) THEN devices
    ELSE Append(devices, info)

\* variant: every assignment adds an element, also for a key already there
DictSetAppend(devices, info) == Append(devices, info)

\* devices[device_name] = info: overwrite in place, or append a new key
DictSet(devices, info) ==
    IF DictHas(devices, info.device_name)
    THEN [i \in 1..Len(devices) |->
            IF devices[i].device_name = info.device_name THEN info ELSE devices[i]]
    ELSE Append(devices, info)

DeviceInfo(device_name, config_data) ==
    [device_name |-> device_name,
     name |-> Get(config_data.name, device_name),
     config |-> config_data,
     unique_id |-> Get(config_data.unique_id, device_name)]

\* DISCOVERY_TOPIC, with its wildcard in the place of the device name
DISCOVERY_TOPIC == <<"discovery", <<"+">>>>

\* CONFIG_TOPIC_PATTERN.format(device_name)
ConfigTopic(device_name) == <<"config", device_name>>

\* ---------------------------------------------------------------- results
NoResult == [kind |-> "none", step_id |-> "", errors |-> {}, reason |-> "",
             options |-> <<>>]

\* self.async_show_form(step_id=..., errors=..., options of the selector)
ShowForm(step_id, errors, options) ==
    [kind |-> "form", step_id |-> step_id, errors |-> errors, reason |-> "",
     options |-> options]

\* self.async_abort(reason=...), and an AbortFlow the host turns into an abort
Abort(reason) ==
    [kind |-> "abort", step_id |-> "", errors |-> {}, reason |-> reason,
     options |-> <<>>]

\* self.async_create_entry(...)
CreateEntry ==
    [kind |-> "create_entry", step_id |-> "", errors |-> {}, reason |-> "",
     options |-> <<>>]

\* ------------------------------------------------------------------ state
VARIABLES
    pc,                   \* per session: where the session is
    discovered_devices,   \* per session: self._discovered_devices
    unique_id,            \* per session: the flow's unique id (optional)
    discovered_configs,   \* per session: the list of _discover_devices
    received_config,      \* per session: the nonlocal of _fetch_mqtt_config
    fetch_name,           \* per session: device_name of the running fetch
    subscription,         \* per session: topics of its active subscriptions
    ret,                  \* per session: what the last step returned
    call,                 \* per session: the last step invoked, its input
                          \*   and the messages of its wait window
    log,                  \* per session: what the last step did, in order
    entries,              \* the shared store of persisted entries
    delivered             \* messages delivered to wait windows so far

vars == <<pc, discovered_devices, unique_id, discovered_configs,
          received_config, fetch_name, subscription, ret, call, log,
          entries, delivered>>

NoCall == [step |-> "none", device_name |-> <<>>, messages |-> 0,
           window |-> <<>>]

Init ==
    /\ pc = [s \in Sessions |-> "init"]
    /\ discovered_devices = [s \in Sessions |-> <<>>]
    /\ unique_id = [s \in Sessions |-> {}]
    /\ discovered_configs = [s \in Sessions |-> <<>>]
    /\ received_config = [s \in Sessions |-> {}]
    /\ fetch_name = [s \in Sessions |-> <<>>]
    /\ subscription = [s \in Sessions |-> {}]
    /\ ret = [s \in Sessions |-> NoResult]
    /\ call = [s \in Sessions |-> NoCall]
    /\ log = [s \in Sessions |-> <<>>]
    /\ entries = <<>>
    /\ delivered = 0


\* ------------------------------------------------------- host primitives
\* variant: the unique-id check never finds an entry
UniqueIdNeverConfigured(uid, ents) == FALSE

\* self._abort_if_unique_id_configured(): TRUE when it raises AbortFlow
UniqueIdConfigured(uid, ents) ==
    uid # {} /\ \E i \in 1..Len(ents) : ents[i].unique_id = uid

\* the entry the host persists for async_create_entry(title=, data=) of a
\* flow whose unique id is uid; device_name is not stored by the program: it
\* records the device name of the run that created the entry
NewEntry(uid, title, mqtt_config, device_name) ==
    [unique_id |-> uid, title |-> title, mqtt_config |-> mqtt_config,
     device_name |-> device_name]

\* where a session is after a step returned result: at the form it shows,
\* or finished (an abort or a created entry ends the session)
PcAfter(result) == IF result.kind = "form" THEN result.step_id ELSE "finished"

Call(step, device_name) ==
    [step |-> step, device_name |-> device_name, messages |-> 0,
     window |-> <<>>]

\* sessions are numbered in the order the host starts them
Started(s) == \A t \in Sessions : t < s => pc[t] # "init"

\* ---------------------------------------------------------- async_step_user
\* the host starts a user-initiated session: async_step_user(None)
StepUser(s) ==
    /\ pc[s] = "init"
    /\ Started(s)
    /\ ret' = [ret EXCEPT ![s] = ShowForm("user", {}, <<>>)]
    /\ pc' = [pc EXCEPT ![s] = "user"]
    /\ call' = [call EXCEPT ![s] = Call("user", <<>>)]
    /\ log' = [log EXCEPT ![s] = <<>>]
    /\ UNCHANGED <<discovered_devices, unique_id, discovered_configs,
                   received_config, fetch_name, subscription, entries,
                   delivered>>

\* async_step_user({"setup_mode": "manual"}) -> async_step_manual()
UserSubmitManual(s) ==
    /\ pc[s] = "user"
    /\ ret' = [ret EXCEPT ![s] = ShowForm("manual", {}, <<>>)]
    /\ pc' = [pc EXCEPT ![s] = "manual"]
    /\ call' = [call EXCEPT ![s] = Call("user_manual", <<>>)]
    /\ log' = [log EXCEPT ![s] = <<>>]
    /\ UNCHANGED <<discovered_devices, unique_id, discovered_configs,
                   received_config, fetch_name, subscription, entries,
                   delivered>>

DiscoveryFailedForm ==
    ShowForm("discovery", {<<"base", "discovery_failed">>}, <<ManualOption>>)

\* async_step_user({"setup_mode": "discover"}) -> async_step_discovery()
\* -> _discover_devices() up to its sleep; subscribed = FALSE stands for
\* async_subscribe raising
UserSubmitDiscover(s, subscribed) ==
    /\ pc[s] = "user"
    /\ call' = [call EXCEPT ![s] = Call("discovery", <<>>)]
    /\ discovered_configs' = [discovered_configs EXCEPT ![s] = <<>>]
    /\ IF subscribed
       THEN /\ subscription' = [subscription EXCEPT ![s] = {DISCOVERY_TOPIC}]
            /\ log' = [log EXCEPT ![s] = <<"subscribe">>]
            /\ pc' = [pc EXCEPT ![s] = "discover_wait"]
            /\ ret' = [ret EXCEPT ![s] = NoResult]
       ELSE /\ subscription' = subscription
            /\ log' = [log EXCEPT ![s] = <<"subscribe_raised">>]
            /\ pc' = [pc EXCEPT ![s] = "discovery"]
            /\ ret' = [ret EXCEPT ![s] = DiscoveryFailedForm]
    /\ UNCHANGED <<discovered_devices, unique_id, received_config, fetch_name,
                   entries, delivered>>

\* ---------------------------------------------------------- async_step_mqtt
\* the outcome of async_step_mqtt's try block: "created" a device record,
\* or the exception its except clause catches
MqttOutcome(device_name, payload, ents) ==
    LET parsed == JsonLoads(payload)
        config_data == parsed.value
        uid == Get(config_data.unique_id, device_name)
    IN  IF ~parsed.ok THEN "bad_json"
        ELSE IF config_data.type # "object" THEN "attribute_error"
        ELSE IF UniqueIdConfigured({uid}, ents) THEN "already_configured"
        ELSE "stored"

\* the host starts a session from an MQTT discovery message:
\* async_step_mqtt({"topic": .../device_name/config, "payload": payload})
StepMqtt(s, device_name, payload) ==
    LET outcome == MqttOutcome(device_name, payload, entries)
        config_data == JsonLoads(payload).value
        info == DeviceInfo(device_name, config_data)
    IN  /\ pc[s] = "init"
        /\ Started(s)
        /\ call' = [call EXCEPT ![s] = Call("mqtt", device_name)]
        /\ unique_id' = [unique_id EXCEPT ![s] =
              IF outcome \in {"already_configured", "stored"}
              THEN {info.unique_id} ELSE @]
        /\ log' = [log EXCEPT ![s] =
              CASE outcome = "bad_json" -> <<"bad_json">>
                [] outcome = "attribute_error" -> <<"attribute_error">>
                [] outcome = "already_configured" ->
                     <<"set_unique_id", "abort_check", "abort_raised">>
                [] OTHER -> <<"set_unique_id", "abort_check">>]
        /\ discovered_devices' = [discovered_devices EXCEPT ![s] =
              IF outcome = "stored" THEN DictSet(@, info) ELSE @]
        /\ LET result == IF outcome = "stored"
                         THEN ShowForm("discovered_device", {}, <<>>)
                         ELSE Abort("discovery_error")
           IN  /\ ret' = [ret EXCEPT ![s] = result]
               /\ pc' = [pc EXCEPT ![s] = PcAfter(result)]
        /\ UNCHANGED <<discovered_configs, received_config, fetch_name,
                       subscription, entries, delivered>>

\* async_step_discovered_device({}): the user confirms the device
DiscoveredDeviceSubmit(s) ==
    LET device_info == discovered_devices[s][1]
    IN  /\ pc[s] = "discovered_device"
        /\ call' = [call EXCEPT ![s] =
              Call("discovered_device", device_info.device_name)]
        /\ log' = [log EXCEPT ![s] = <<"create_entry">>]
        /\ entries' = Append(entries,
              NewEntry(unique_id[s], device_info.name, device_info.config,
                       device_info.device_name))
        /\ ret' = [ret EXCEPT ![s] = CreateEntry]
        /\ pc' = [pc EXCEPT ![s] = "finished"]
        /\ UNCHANGED <<discovered_devices, unique_id, discovered_configs,
                       received_config, fetch_name, subscription, delivered>>


\* --------------------------------------------------------- _discover_devices
\* discovery_callback(message) while the routine sleeps: a parsed payload is
\* appended to discovered_configs, an unparseable one is logged and dropped
DiscoveryCallback(s, device_name, payload) ==
    LET parsed == JsonLoads(payload)
    IN  /\ pc[s] = "discover_wait"
        /\ DISCOVERY_TOPIC \in subscription[s]
        /\ delivered < MaxMsgs
        /\ delivered' = delivered + 1
        /\ call' = [call EXCEPT ![s].messages = @ + 1,
                                ![s].window = Append(@,
                                   [device_name |-> device_name,
                                    payload |-> payload])]
        /\ IF parsed.ok
           THEN /\ discovered_configs' = [discovered_configs EXCEPT ![s] =
                      Append(@, [device_name |-> device_name,
                                 config |-> parsed.value])]
                /\ log' = log
           ELSE /\ discovered_configs' = discovered_configs
                /\ log' = [log EXCEPT ![s] = Append(@, "bad_json")]
        /\ UNCHANGED <<pc, discovered_devices, unique_id, received_config,
                       fetch_name, subscription, ret, entries>>

\* the linear scan over self._async_current_entries()
AlreadyConfigured(uid, ents) ==
    \E i \in 1..Len(ents) : ents[i].mqtt_config.unique_id = {uid}

\* the loop over discovered_configs: the devices dict it leaves and whether
\* it raised (config_data.get on a JSON value that is not an object)
RECURSIVE ProcessDiscovered(_, _, _)
ProcessDiscovered(configs, devices, ents) ==
    IF configs = <<>> THEN [devices |-> devices, raised |-> FALSE]
    ELSE LET discovered == Head(configs)
             device_name == discovered.device_name
             config_data == discovered.config
             uid == Get(config_data.unique_id, device_name)
         IN  IF config_data.type # "object"
             THEN [devices |-> devices, raised |-> TRUE]
             ELSE IF AlreadyConfigured(uid, ents)
             THEN ProcessDiscovered(Tail(configs), devices, ents)
             ELSE ProcessDiscovered(Tail(configs),
                     DictSet(devices, DeviceInfo(device_name, config_data)),
                     ents)

\* variant: the unsubscribe follows the try block instead of guarding it
DiscoverFinallySkippedOnError(subs, raised) ==
    IF raised THEN [subscription |-> subs, log |-> <<>>]
    ELSE [subscription |-> subs \ {DISCOVERY_TOPIC}, log |-> <<"unsubscribe">>]

\* the finally clause of _discover_devices: subscription() runs whether or
\* not the try block raised; the subscriptions it leaves and what it did
DiscoverFinally(subs, raised) ==
    [subscription |-> subs \ {DISCOVERY_TOPIC}, log |-> <<"unsubscribe">>]

\* what the try block of _discover_devices does, in order
DiscoverLog(raised) ==
    IF raised THEN <<"sleep", "process_raised">> ELSE <<"sleep", "process">>

\* the options of the selection form: one per discovered device, then manual
DeviceOptions(devices) ==
    [i \in 1..Len(devices) |->
        [value |-> devices[i].device_name,
         label |-> DeviceLabel(devices[i].name, devices[i].device_name)]]
    \o <<ManualOption>>

\* variant: a failed discovery still offers the devices it had collected
DiscoveryResultOffersOnError(devices, raised) ==
    IF devices = <<>> THEN ShowForm("manual", {}, <<>>)
    ELSE ShowForm("discovery",
                  IF raised THEN {<<"base", "discovery_failed">>} ELSE {},
                  DeviceOptions(devices))

\* variant: the selection form is shown even when no device was found
DiscoveryResultNoFallback(devices, raised) ==
    IF raised THEN DiscoveryFailedForm
    ELSE ShowForm("discovery", {}, DeviceOptions(devices))

\* what async_step_discovery() returns after _discover_devices
DiscoveryResult(devices, raised) ==
    IF raised THEN DiscoveryFailedForm
    ELSE IF devices = <<>> THEN ShowForm("manual", {}, <<>>)
    ELSE ShowForm("discovery", {}, DeviceOptions(devices))

\* variant: the routine waits for a first message instead of a fixed time
WindowElapsedOnMessage(messages) == messages > 0

\* await asyncio.sleep(...): the wait ends after its fixed time, whatever
\* number of messages arrived
WindowElapsed(messages) == TRUE

\* the sleep of _discover_devices ends: the collected payloads are
\* processed, the subscription is released and async_step_discovery returns
DiscoverTimeout(s) ==
    LET r == ProcessDiscovered(discovered_configs[s], discovered_devices[s],
                               entries)
        result == DiscoveryResult(r.devices, r.raised)
        finally == DiscoverFinally(subscription[s], r.raised)
    IN  /\ pc[s] = "discover_wait"
        /\ WindowElapsed(call[s].messages)
        /\ discovered_devices' = [discovered_devices EXCEPT ![s] = r.devices]
        /\ discovered_configs' = [discovered_configs EXCEPT ![s] = <<>>]
        /\ subscription' = [subscription EXCEPT ![s] = finally.subscription]
        /\ log' = [log EXCEPT ![s] = @ \o DiscoverLog(r.raised) \o finally.log]
        /\ ret' = [ret EXCEPT ![s] = result]
        /\ pc' = [pc EXCEPT ![s] = PcAfter(result)]
        /\ UNCHANGED <<unique_id, received_config, fetch_name, call, entries,
                       delivered>>

\* the values the user can pick in the form the session shows
OptionValues(s) == {ret[s].options[i].value : i \in 1..Len(ret[s].options)}

\* async_step_discovery({"device": "manual"}) -> async_step_manual()
DiscoverySubmitManual(s) ==
    /\ pc[s] = "discovery"
    /\ Manual \in OptionValues(s)
    /\ call' = [call EXCEPT ![s] = Call("discovery_select", Manual)]
    /\ log' = [log EXCEPT ![s] = <<>>]
    /\ ret' = [ret EXCEPT ![s] = ShowForm("manual", {}, <<>>)]
    /\ pc' = [pc EXCEPT ![s] = "manual"]
    /\ UNCHANGED <<discovered_devices, unique_id, discovered_configs,
                   received_config, fetch_name, subscription, entries,
                   delivered>>

\* async_step_discovery({"device": device_name}): the unique id is set and
\* checked (the AbortFlow is not caught here: the host aborts the session),
\* then the entry is created
DiscoverySubmitDevice(s, device_name) ==
    /\ pc[s] = "discovery"
    /\ device_name \in OptionValues(s) \ {Manual}
    /\ LET device_info == DictGet(discovered_devices[s], device_name)
           configured == UniqueIdConfigured({device_info.unique_id}, entries)
           result == IF configured THEN Abort("already_configured")
                     ELSE CreateEntry
       IN  /\ call' = [call EXCEPT ![s] = Call("discovery_select", device_name)]
           /\ unique_id' = [unique_id EXCEPT ![s] = {device_info.unique_id}]
           /\ log' = [log EXCEPT ![s] =
                 IF configured
                 THEN <<"set_unique_id", "abort_check", "abort_raised">>
                 ELSE <<"set_unique_id", "abort_check", "create_entry">>]
           /\ entries' = IF configured THEN entries
                         ELSE Append(entries,
                                NewEntry({device_info.unique_id},
                                         device_info.name, device_info.config,
                                         device_name))
           /\ ret' = [ret EXCEPT ![s] = result]
           /\ pc' = [pc EXCEPT ![s] = "finished"]
    /\ UNCHANGED <<discovered_devices, discovered_configs, received_config,
                   fetch_name, subscription, delivered>>


\* -------------------------------------------------------- _fetch_mqtt_config
\* config_callback(message) while the routine sleeps: a parsed payload
\* replaces received_config, an unparseable one is logged and dropped
ConfigCallback(s, payload) ==
    LET parsed == JsonLoads(payload)
    IN  /\ pc[s] = "fetch_wait"
        /\ ConfigTopic(fetch_name[s]) \in subscription[s]
        /\ delivered < MaxMsgs
        /\ delivered' = delivered + 1
        /\ call' = [call EXCEPT ![s].messages = @ + 1,
                                ![s].window = Append(@,
                                   [device_name |-> fetch_name[s],
                                    payload |-> payload])]
        /\ IF parsed.ok
           THEN /\ received_config' = [received_config EXCEPT ![s] =
                      {parsed.value}]
                /\ log' = log
           ELSE /\ received_config' = received_config
                /\ log' = [log EXCEPT ![s] = Append(@, "bad_json")]
        /\ UNCHANGED <<pc, discovered_devices, unique_id, discovered_configs,
                       fetch_name, subscription, ret, entries>>

\* variant: a config the schema rejects is returned as received
FetchReturnUnvalidated(received) ==
    IF received # {} /\ Get(received, EmptyObject).truthy
    THEN {Get(received, EmptyObject)}
    ELSE {}

\* what _fetch_mqtt_config returns after its sleep: the validated config, or
\* None ({}) when nothing truthy was received or the schema rejects it
FetchReturn(received) ==
    IF received # {} /\ Get(received, EmptyObject).truthy
    THEN LET validated == MQTT_CONFIG_SCHEMA(Get(received, EmptyObject))
         IN  IF validated.ok THEN {validated.value} ELSE {}
    ELSE {}

\* what the try block of _fetch_mqtt_config does, in order
FetchLog(received) ==
    IF received # {} /\ Get(received, EmptyObject).truthy
    THEN IF MQTT_CONFIG_SCHEMA(Get(received, EmptyObject)).ok
         THEN <<"sleep", "validate">>
         ELSE <<"sleep", "invalid">>
    ELSE <<"sleep", "no_config">>

\* variant: the routine returns without releasing its subscription
FetchFinallyKeeps(subs, device_name) == [subscription |-> subs, log |-> <<>>]

\* the finally clause of _fetch_mqtt_config: subscription() runs on every
\* outcome; the subscriptions it leaves and what it did
FetchFinally(subs, device_name) ==
    [subscription |-> subs \ {ConfigTopic(device_name)},
     log |-> <<"unsubscribe">>]

\* ---------------------------------------------------------- async_step_manual
ManualForm(errors) == ShowForm("manual", errors, <<>>)

\* variant: the error is put on the form instead of the name field
NoConfigErrorsOnBase == {<<"base", "device_not_found">>}

\* the errors async_step_manual shows when the fetch gave no config
NoConfigErrors == {<<"name", "device_not_found">>}

\* the errors async_step_manual shows when its except clause ran
UnknownErrors == {<<"base", "unknown">>}

\* async_step_manual({"name": device_name}) up to the sleep of the fetch;
\* subscribed = FALSE stands for async_subscribe raising
ManualSubmit(s, device_name, subscribed) ==
    /\ pc[s] = "manual"
    /\ call' = [call EXCEPT ![s] = Call("manual", device_name)]
    /\ IF ~ValidDeviceName(device_name)
       THEN /\ ret' = [ret EXCEPT ![s] =
                  ManualForm({<<"name", "invalid_device_name">>})]
            /\ log' = [log EXCEPT ![s] = <<>>]
            /\ UNCHANGED <<pc, subscription, fetch_name, received_config>>
       ELSE IF ~subscribed
       THEN /\ ret' = [ret EXCEPT ![s] = ManualForm(UnknownErrors)]
            /\ log' = [log EXCEPT ![s] = <<"subscribe_raised">>]
            /\ UNCHANGED <<pc, subscription, fetch_name, received_config>>
       ELSE /\ ret' = [ret EXCEPT ![s] = NoResult]
            /\ log' = [log EXCEPT ![s] = <<"subscribe">>]
            /\ pc' = [pc EXCEPT ![s] = "fetch_wait"]
            /\ subscription' = [subscription EXCEPT ![s] =
                  @ \cup {ConfigTopic(device_name)}]
            /\ fetch_name' = [fetch_name EXCEPT ![s] = device_name]
            /\ received_config' = [received_config EXCEPT ![s] = {}]
    /\ UNCHANGED <<discovered_devices, unique_id, discovered_configs, entries,
                   delivered>>

\* the sleep of _fetch_mqtt_config ends: the received config is validated,
\* the subscription is released and async_step_manual goes on to its end
FetchTimeout(s) ==
    LET device_name == fetch_name[s]
        mqtt_config == FetchReturn(received_config[s])
        config == Get(mqtt_config, EmptyObject)
        uid == Get(config.unique_id, device_name)
        configured == UniqueIdConfigured({uid}, entries)
        finally == FetchFinally(subscription[s], device_name)
        fetched == log[s] \o FetchLog(received_config[s]) \o finally.log
    IN  /\ pc[s] = "fetch_wait"
        /\ WindowElapsed(call[s].messages)
        /\ subscription' = [subscription EXCEPT ![s] = finally.subscription]
        /\ received_config' = [received_config EXCEPT ![s] = {}]
        /\ fetch_name' = [fetch_name EXCEPT ![s] = <<>>]
        /\ IF mqtt_config = {}
           THEN /\ ret' = [ret EXCEPT ![s] = ManualForm(NoConfigErrors)]
                /\ pc' = [pc EXCEPT ![s] = "manual"]
                /\ log' = [log EXCEPT ![s] = fetched]
                /\ UNCHANGED <<unique_id, entries>>
           ELSE IF configured
           THEN /\ ret' = [ret EXCEPT ![s] = ManualForm(UnknownErrors)]
                /\ pc' = [pc EXCEPT ![s] = "manual"]
                /\ log' = [log EXCEPT ![s] = fetched
                      \o <<"set_unique_id", "abort_check", "abort_raised">>]
                /\ unique_id' = [unique_id EXCEPT ![s] = {uid}]
                /\ UNCHANGED entries
           ELSE /\ ret' = [ret EXCEPT ![s] = CreateEntry]
                /\ pc' = [pc EXCEPT ![s] = "finished"]
                /\ log' = [log EXCEPT ![s] = fetched
                      \o <<"set_unique_id", "abort_check", "create_entry">>]
                /\ unique_id' = [unique_id EXCEPT ![s] = {uid}]
                /\ entries' = Append(entries,
                      NewEntry({uid}, Get(config.name, device_name), config,
                               device_name))
        /\ UNCHANGED <<discovered_devices, discovered_configs, call, delivered>>

\* ------------------------------------------------------------ session end
FormSteps == {"user", "discovery", "manual", "discovered_device"}

\* the session is over (the user closed the dialog at a form, or the last
\* step returned an abort or a created entry): the host drops the flow
\* object and with it self._discovered_devices and the rest of its state
Close(s) ==
    /\ pc[s] \in FormSteps \cup {"finished"}
    /\ pc' = [pc EXCEPT ![s] = "done"]
    /\ discovered_devices' = [discovered_devices EXCEPT ![s] = <<>>]
    /\ unique_id' = [unique_id EXCEPT ![s] = {}]
    /\ ret' = [ret EXCEPT ![s] = NoResult]
    /\ call' = [call EXCEPT ![s] = NoCall]
    /\ log' = [log EXCEPT ![s] = <<>>]
    /\ UNCHANGED <<discovered_configs, received_config, fetch_name,
                   subscription, entries, delivered>>

\* -------------------------------------------------------- specifications
StepWith(s, payloads) ==
    \/ StepUser(s)
    \/ UserSubmitManual(s)
    \/ \E subscribed \in BOOLEAN : UserSubmitDiscover(s, subscribed)
    \/ \E d \in DeviceNames, p \in payloads : StepMqtt(s, d, p)
    \/ DiscoveredDeviceSubmit(s)
    \/ \E d \in DeviceNames, p \in payloads : DiscoveryCallback(s, d, p)
    \/ DiscoverTimeout(s)
    \/ DiscoverySubmitManual(s)
    \/ \E d \in DeviceNames : DiscoverySubmitDevice(s, d)
    \/ \E n \in TypedNames, subscribed \in BOOLEAN :
          ManualSubmit(s, n, subscribed)
    \/ \E p \in payloads : ConfigCallback(s, p)
    \/ FetchTimeout(s)
    \/ Close(s)

\* one step of session s, its messages carrying any payload
Step(s) == StepWith(s, Payloads)

\* sessions interleave at their forms and at their waits
Next == \E s \in Sessions : Step(s)

Spec == Init /\ [][Next]_vars

\* a session is running from its first step to its end
Running(s) == pc[s] \notin {"init", "done"}

\* sessions run one after another: a session steps only while no other runs
NextSeq ==
    \E s \in Sessions :
        /\ \A t \in Sessions \ {s} : ~Running(t)
        /\ Step(s)

SpecSeq == Init /\ [][NextSeq]_vars


\* ------------------------------------------------------------ properties
\* what the last step of session s did
Events(s) == {log[s][i] : i \in 1..Len(log[s])}

\* how many times the last step of session s did e
Count(s, e) == Cardinality({i \in 1..Len(log[s]) : log[s][i] = e})

\* the log of the last step without its dropped messages
Handled(s) == SelectSeq(log[s], LAMBDA e : e # "bad_json")

\* the last step of session s has returned
Ended(s) == pc[s] \notin {"discover_wait", "fetch_wait"} /\ ret[s].kind # "none"

\* the unique id of an entry: its config's unique_id, else the device name
EntryUniqueId(e) == Get(e.mqtt_config.unique_id, e.device_name)

\* a typed name with a character that is no letter, digit, '_' or '-', or
\* with no letter or digit at all
InvalidName(n) ==
    \/ \E i \in 1..Len(n) : n[i] \notin Letters \cup Digits \cup {"_", "-"}
    \/ ~\E i \in 1..Len(n) : n[i] \in Letters \cup Digits

\* C1: on every path that can create an entry, a unique-id check that finds
\* an existing entry ends the session in an abort and creates no entry; the
\* step does not end in a re-shown form.
C1_AbortWhenAlreadyConfigured ==
    \A s \in Sessions :
        "abort_raised" \in Events(s) =>
            ret[s].kind = "abort" /\ "create_entry" \notin Events(s)

\* C2: after any sequence of sessions run one after another, no two
\* persisted entries have the same unique id (config unique_id, else the
\* device name), and that id is the one the host keys the entry by.
C2_NoDuplicateEntries ==
    /\ \A i, j \in 1..Len(entries) :
          i < j => EntryUniqueId(entries[i]) # EntryUniqueId(entries[j])
    /\ \A i \in 1..Len(entries) :
          entries[i].unique_id = {EntryUniqueId(entries[i])}

C2_Witness ==
    /\ Len(entries) >= 2
    /\ \E i \in 1..Len(entries) : entries[i].mqtt_config.unique_id = {}
    /\ \E i \in 1..Len(entries) : entries[i].mqtt_config.unique_id # {}

\* C3: every persisted entry stores under mqtt_config a configuration that
\* has passed MQTT_CONFIG_SCHEMA, whichever path created it.
C3_EntriesValidated ==
    \A i \in 1..Len(entries) : entries[i].mqtt_config.validated

\* C4: every run of _discover_devices subscribes once and, when the subscribe
\* succeeded, unsubscribes exactly once, after the wait and after the
\* processing of the collected payloads, also when that processing raises; no
\* run has returned or failed with the discovery subscription still active.
C4_DiscoverySubscription ==
    \A s \in Sessions :
        /\ DISCOVERY_TOPIC \in subscription[s] => pc[s] = "discover_wait"
        /\ call[s].step = "discovery" =>
              IF pc[s] = "discover_wait"
              THEN Handled(s) = <<"subscribe">> /\ DISCOVERY_TOPIC \in subscription[s]
              ELSE Handled(s) \in
                     {<<"subscribe_raised">>,
                      <<"subscribe", "sleep", "process", "unsubscribe">>,
                      <<"subscribe", "sleep", "process_raised", "unsubscribe">>}

C4_Witness ==
    \E s \in Sessions :
        /\ call[s].step = "discovery"
        /\ pc[s] = "discovery"
        /\ "process_raised" \in Events(s)
        /\ Count(s, "unsubscribe") = 1
        /\ subscription[s] = {}

\* C5: discover mode, the subscribe succeeding and no message received in
\* the window: the step returns the manual form without errors, not the
\* selection form and not an error form, and creates no entry.
C5_NoDeviceFallsToManual ==
    \A s \in Sessions :
        (/\ call[s].step = "discovery"
         /\ pc[s] # "discover_wait"
         /\ call[s].messages = 0
         /\ "subscribe" \in Events(s))
        => /\ ret[s] = ShowForm("manual", {}, <<>>)
           /\ pc[s] = "manual"
           /\ "create_entry" \notin Events(s)

C5_Witness ==
    \E s \in Sessions :
        /\ call[s].step = "discovery"
        /\ pc[s] = "manual"
        /\ call[s].messages = 0
        /\ "subscribe" \in Events(s)

\* C6: a manual submission with an invalid device name returns the manual
\* form with invalid_device_name on the name field and does nothing else: no
\* subscribe, no unsubscribe, no unique-id check, no entry; the bus and the
\* entry store are unchanged.
C6_InvalidNameRejected ==
    [][\A s \in Sessions :
          (/\ pc[s] = "manual"
           /\ call'[s].step = "manual"
           /\ InvalidName(call'[s].device_name)
           /\ <<call[s], ret[s], log[s], pc[s]>> # <<call'[s], ret'[s], log'[s], pc'[s]>>)
          => /\ ret'[s] = ShowForm("manual", {<<"name", "invalid_device_name">>}, <<>>)
             /\ pc'[s] = "manual"
             /\ log'[s] = <<>>
             /\ subscription' = subscription
             /\ entries' = entries
             /\ unique_id' = unique_id
             /\ delivered' = delivered]_vars

C6_Witness ==
    \E s \in Sessions :
        /\ call[s].step = "manual"
        /\ InvalidName(call[s].device_name)
        /\ pc[s] = "manual"
        /\ ret[s].errors = {<<"name", "invalid_device_name">>}

\* the failures C7 lists, as the last step of session s met them
Failures(s) ==
    Events(s) \cap {"bad_json", "subscribe_raised", "no_config", "invalid"}

\* C7 as stated: every listed failure, wherever it occurs, ends the step
\* with a form carrying an error code or an abort with a reason, and the
\* step creates no entry.
C7_EveryFailureBecomesAnError ==
    \A s \in Sessions :
        (Ended(s) /\ Failures(s) # {})
        => /\ \/ ret[s].kind = "form" /\ ret[s].errors # {}
              \/ ret[s].kind = "abort" /\ ret[s].reason # ""
           /\ "create_entry" \notin Events(s)

\* C7 amended: malformed JSON in the mqtt payload aborts with
\* discovery_error; a subscribe that raises gives discovery_failed
\* (discovery) or unknown (manual); no config received and a config the
\* schema rejects give device_not_found; none of these creates an entry. A
\* malformed message in a wait window is dropped without an error of its
\* own: the step still ends in a form, an abort or an entry, and a window
\* with only malformed messages ends as a window with none.
C7_FailuresHandled ==
    \A s \in Sessions :
        Ended(s) =>
           /\ (call[s].step = "mqtt" /\ "bad_json" \in Events(s))
                 => ret[s] = Abort("discovery_error")
           /\ (call[s].step = "discovery" /\ "subscribe_raised" \in Events(s))
                 => ret[s] = ShowForm("discovery",
                                      {<<"base", "discovery_failed">>},
                                      <<ManualOption>>)
           /\ (call[s].step = "manual" /\ "subscribe_raised" \in Events(s))
                 => ret[s] = ShowForm("manual", {<<"base", "unknown">>}, <<>>)
           /\ (Events(s) \cap {"no_config", "invalid"} # {})
                 => ret[s] = ShowForm("manual",
                                      {<<"name", "device_not_found">>}, <<>>)
           /\ (\/ Events(s) \cap {"subscribe_raised", "no_config", "invalid"} # {}
               \/ call[s].step = "mqtt" /\ "bad_json" \in Events(s))
                 => "create_entry" \notin Events(s)
           /\ (call[s].step \in {"discovery", "manual"} /\ "bad_json" \in Events(s))
                 => /\ ret[s].kind \in {"form", "abort", "create_entry"}
                    /\ call[s].messages = Count(s, "bad_json")
                          => /\ "create_entry" \notin Events(s)
                             /\ ret[s] =
                                  IF call[s].step = "discovery"
                                  THEN ShowForm("manual", {}, <<>>)
                                  ELSE ShowForm("manual",
                                         {<<"name", "device_not_found">>}, <<>>)

C7_Witness ==
    \E s \in Sessions :
        /\ call[s].step = "discovery"
        /\ Ended(s)
        /\ "bad_json" \in Events(s)
        /\ call[s].messages = Count(s, "bad_json")

\* C8: a manual submission with a well-formed name and no config message in
\* the wait returns the manual form with device_not_found on the name field;
\* one subscribe, no unique-id check, no entry, no retry.
C8_NoConfigIsNotFound ==
    \A s \in Sessions :
        (/\ call[s].step = "manual"
         /\ ~InvalidName(call[s].device_name)
         /\ Ended(s)
         /\ call[s].messages = 0
         /\ "subscribe" \in Events(s))
        => /\ ret[s] = ShowForm("manual", {<<"name", "device_not_found">>}, <<>>)
           /\ pc[s] = "manual"
           /\ log[s] = <<"subscribe", "sleep", "no_config", "unsubscribe">>

C8_Witness ==
    \E s \in Sessions :
        /\ call[s].step = "manual"
        /\ ~InvalidName(call[s].device_name)
        /\ Ended(s)
        /\ call[s].messages = 0
        /\ "subscribe" \in Events(s)

\* the options of the selection form session s shows, manual left out
OfferedDevices(s) ==
    IF ret[s].kind = "form" /\ ret[s].step_id = "discovery"
    THEN {i \in 1..Len(ret[s].options) : ret[s].options[i].value # Manual}
    ELSE {}

\* C9 as stated: the label of an offered device is the display name of its
\* discovery payload, its value the device name of the topic.
C9_LabelIsDisplayName ==
    \A s \in Sessions : \A i \in OfferedDevices(s) :
        LET option == ret[s].options[i]
            device == discovered_devices[s][i]
        IN  /\ option.value = device.device_name
            /\ device.config.name # {} => {option.label} = device.config.name

\* C9 amended: the label of an offered device is its display name followed
\* by the device name in parentheses, the display name being the name field
\* of the device's stored payload, or the device name when the payload has
\* none; the value is the device name of the topic.
C9_LabelIsNameAndDevice ==
    \A s \in Sessions : \A i \in OfferedDevices(s) :
        LET option == ret[s].options[i]
            device == discovered_devices[s][i]
        IN  /\ option.value = device.device_name
            /\ option.label =
                  Get(device.config.name, device.device_name)
                     \o <<" ", "(">> \o device.device_name \o <<")">>

C9_Witness ==
    \E s \in Sessions :
        /\ \E i \in OfferedDevices(s) : discovered_devices[s][i].config.name # {}
        /\ \E i \in OfferedDevices(s) : discovered_devices[s][i].config.name = {}

ParsedWindow(s) ==
    SelectSeq(call[s].window, LAMBDA m : JsonLoads(m.payload).ok)

\* the unique id of a collected message: the config's unique_id, else the
\* device name
MessageUniqueId(m) == Get(JsonLoads(m.payload).value.unique_id, m.device_name)

\* an existing entry has unique id uid
Configured(uid) ==
    \E i \in 1..Len(entries) : EntryUniqueId(entries[i]) = uid

\* C11: a device collected in the discovery window is never offered in the
\* selection form when an existing entry has its unique id (the config's
\* unique_id, else the device name).
C11_ConfiguredNeverOffered ==
    \A s \in Sessions : \A i \in OfferedDevices(s) :
        ~Configured(discovered_devices[s][i].unique_id)

\* C12 as stated: no two devices offered by a discovery run have the same
\* unique id (config unique_id, else device name).
C12_OfferedUniqueIdsDistinct ==
    \A s \in Sessions : \A i, j \in OfferedDevices(s) :
        i # j => discovered_devices[s][i].unique_id
                    # discovered_devices[s][j].unique_id

\* C12 amended: the devices a discovery run offers are deduplicated by the
\* device name of their topic: no two options have the same device name,
\* whatever messages the window received; two devices with different device
\* names are both offered even when they carry the same unique_id.
C12_OfferedDeviceNamesDistinct ==
    \A s \in Sessions : \A i, j \in OfferedDevices(s) :
        i # j => /\ ret[s].options[i].value # ret[s].options[j].value
                 /\ discovered_devices[s][i].device_name
                       # discovered_devices[s][j].device_name

C12_Witness ==
    \E s \in Sessions :
        /\ Cardinality(OfferedDevices(s)) = 1
        /\ Len(ParsedWindow(s)) = 2
        /\ ParsedWindow(s)[1].device_name = ParsedWindow(s)[2].device_name
        /\ ParsedWindow(s)[1].payload # ParsedWindow(s)[2].payload

\* a message the discovery cannot use: not JSON, or JSON that is no object
Unusable(m) ==
    ~JsonLoads(m.payload).ok \/ JsonLoads(m.payload).value.type # "object"

\* the device names the form session s shows offers
OfferedNames(s) == {ret[s].options[i].value : i \in OfferedDevices(s)}

\* C13: a single unusable message in the discovery window (not JSON, or JSON
\* that is not an object) is skipped: every well-formed device of the same
\* window that is not yet configured is offered in the selection form.
C13_UnusableMessageSkipped ==
    \A s \in Sessions :
        (/\ call[s].step = "discovery"
         /\ Ended(s)
         /\ "subscribe" \in Events(s)
         /\ Cardinality({i \in 1..Len(call[s].window) :
                            Unusable(call[s].window[i])}) = 1)
        => \A i \in 1..Len(call[s].window) :
              LET m == call[s].window[i]
              IN  (/\ ~Unusable(m)
                   /\ ~Configured(MessageUniqueId(m))
                   /\ ~AlreadyConfigured(MessageUniqueId(m), entries))
                  => m.device_name \in OfferedNames(s)

\* what a run of _fetch_mqtt_config that subscribed does, in order
FetchRuns ==
    {<<"subscribe", "sleep", outcome, "unsubscribe">> :
        outcome \in {"validate", "invalid", "no_config"}}

\* C14: every run of _fetch_mqtt_config subscribes once to the config topic
\* of the entered device name and, when the subscribe succeeded, unsubscribes
\* exactly once, whether the config was valid, rejected or missing; when the
\* manual step has returned, the session holds no active subscription.
C14_FetchSubscription ==
    \A s \in Sessions :
        /\ pc[s] # "fetch_wait" =>
              \A n \in TypedNames : ConfigTopic(n) \notin subscription[s]
        /\ call[s].step = "manual" =>
              IF pc[s] = "fetch_wait"
              THEN /\ Handled(s) = <<"subscribe">>
                   /\ subscription[s] = {ConfigTopic(call[s].device_name)}
              ELSE /\ subscription[s] = {}
                   /\ \/ Handled(s) \in {<<>>, <<"subscribe_raised">>}
                      \/ /\ Len(Handled(s)) >= 4
                         /\ SubSeq(Handled(s), 1, 4) \in FetchRuns
                         /\ Count(s, "subscribe") = 1
                         /\ Count(s, "unsubscribe") = 1

C14_Witness ==
    \E s \in Sessions :
        /\ call[s].step = "manual"
        /\ pc[s] = "manual"
        /\ "invalid" \in Events(s)
        /\ Count(s, "unsubscribe") = 1
        /\ subscription[s] = {}

\* the last element of a non-empty sequence
Last(seq) == seq[Len(seq)]

\* the JSON value of the last message of the window that parsed, if any
LastParsed(s) ==
    IF ParsedWindow(s) = <<>> THEN {}
    ELSE {JsonLoads(Last(ParsedWindow(s)).payload).value}

\* the parsed messages of the window for device_name
MessagesOf(s, device_name) ==
    SelectSeq(ParsedWindow(s), LAMBDA m : m.device_name = device_name)

\* those of them that the scan did not find among the existing entries
NewMessagesOf(s, device_name) ==
    SelectSeq(MessagesOf(s, device_name),
              LAMBDA m : ~AlreadyConfigured(MessageUniqueId(m), entries))

\* the device record made from a collected message
InfoOf(m) == DeviceInfo(m.device_name, JsonLoads(m.payload).value)

\* the fetch side of C15: the config the fetch holds, validates and uses is
\* the last message of the window that parsed as JSON
FetchUsesLastParsed(s) ==
    /\ pc[s] = "fetch_wait" => received_config[s] = LastParsed(s)
    /\ (call[s].step = "manual" /\ "validate" \in Events(s)) =>
          /\ LastParsed(s) # {}
          /\ MQTT_CONFIG_SCHEMA(Get(LastParsed(s), EmptyObject)).ok
          /\ unique_id[s] = {Get(Get(LastParsed(s), EmptyObject).unique_id,
                                 call[s].device_name)}
          /\ "create_entry" \in Events(s) =>
                Last(entries).mqtt_config =
                   MQTT_CONFIG_SCHEMA(Get(LastParsed(s), EmptyObject)).value

\* C15 as stated: the fetch validates the last message of the window that
\* parsed as JSON, and a device offered by the discovery carries the name,
\* config and unique id of the last message of the window with its device
\* name.
C15_LastMessageWins ==
    \A s \in Sessions :
        /\ FetchUsesLastParsed(s)
        /\ \A i \in OfferedDevices(s) :
              discovered_devices[s][i] =
                 InfoOf(Last(MessagesOf(s, discovered_devices[s][i].device_name)))

\* C15 amended: the fetch validates the last message of the window that
\* parsed as JSON (a later unparseable message does not erase it), and a
\* device offered by the discovery carries the name, config and unique id of
\* the last message with its device name whose unique id the scan did not
\* find in an existing entry: a later message for the same device name that
\* is already configured does not replace an earlier one.
C15_LastNewMessageWins ==
    \A s \in Sessions :
        /\ FetchUsesLastParsed(s)
        /\ \A i \in OfferedDevices(s) :
              LET new == NewMessagesOf(s, discovered_devices[s][i].device_name)
              IN  new # <<>> /\ discovered_devices[s][i] = InfoOf(Last(new))

C15_Witness ==
    \E s \in Sessions : \E i \in OfferedDevices(s) :
        LET device_name == discovered_devices[s][i].device_name
        IN  /\ Len(MessagesOf(s, device_name)) = 2
            /\ Len(NewMessagesOf(s, device_name)) = 1
            /\ discovered_devices[s][i] # InfoOf(Last(MessagesOf(s, device_name)))

\* the last step of session s was a discovery whose routine failed
FailedDiscovery(s) ==
    /\ call[s].step = "discovery"
    /\ Ended(s)
    /\ Events(s) \cap {"subscribe_raised", "process_raised"} # {}

\* C16: when the discovery routine fails (the subscribe raises, or the
\* processing of the collected payloads raises), the step returns the
\* discovery form with base error discovery_failed and manual as its only
\* option: no device is selectable, no entry is created, and the next step of
\* the session, if any, is the choice of manual, which shows the manual form.
C16_FailedDiscoveryOffersManual ==
    /\ [](\A s \in Sessions :
            FailedDiscovery(s) =>
               /\ ret[s] = ShowForm("discovery",
                                    {<<"base", "discovery_failed">>},
                                    <<[value |-> Manual, label |-> ManualLabel]>>)
               /\ pc[s] = "discovery"
               /\ OfferedDevices(s) = {}
               /\ "create_entry" \notin Events(s))
    /\ [][\A s \in Sessions :
            (FailedDiscovery(s)
               /\ <<pc[s], call[s], ret[s]>> # <<pc'[s], call'[s], ret'[s]>>)
            => /\ entries' = entries
               /\ \/ pc'[s] = "done"
                  \/ /\ call'[s].device_name = Manual
                     /\ pc'[s] = "manual"
                     /\ ret'[s] = ShowForm("manual", {}, <<>>)]_vars

C16_Witness ==
    \E s \in Sessions :
        /\ FailedDiscovery(s)
        /\ "process_raised" \in Events(s)
        /\ discovered_devices[s] # <<>>
        /\ OptionValues(s) = {Manual}

\* the timer of the event loop fires: the sleep of a session ends
TimerFires == \E s \in Sessions : DiscoverTimeout(s) \/ FetchTimeout(s)

\* the timer is fair: a sleep that has started ends
TimerFairness == WF_vars(TimerFires)

\* one payload of each kind the steps branch on: text that is not JSON
\* (skipped by the callback), a value that is not an object (raises in the
\* processing loop, rejected by the schema), and an object the schema accepts
TimerPayloads ==
    {[parseable |-> FALSE, value |-> EmptyObject]}
        \cup [parseable : {TRUE},
              value : JsonScalars \cup {Object({<<"a">>}, {}, TRUE)}]

\* sessions run one after another, on those payloads
NextSeqTimer ==
    \E s \in Sessions :
        /\ \A t \in Sessions \ {s} : ~Running(t)
        /\ StepWith(s, TimerPayloads)

\* sessions one after another, with a fair timer
SpecSeqFair == Init /\ [][NextSeqTimer]_vars /\ TimerFairness

\* session s is inside a step, at the sleep of its wait window
Waiting(s) == pc[s] \in {"discover_wait", "fetch_wait"}

\* the last step of session s returned one outcome: a form, which the
\* session now shows, or an abort or a created entry, which end it
Returned(s) ==
    /\ ~Waiting(s)
    /\ \/ ret[s].kind = "form" /\ pc[s] = ret[s].step_id
       \/ ret[s].kind \in {"abort", "create_entry"} /\ pc[s] = "finished"

\* C17: with a fair timer every invocation of a wizard step eventually
\* returns exactly one outcome among a form, a created entry and an abort: a
\* session is either before its first step, over, inside a wait, or at the
\* outcome of its last step, and a session inside a discovery or fetch wait
\* leaves it whether or not a message arrives.
C17_EveryStepReturns ==
    /\ [](\A s \in Sessions :
            pc[s] \in {"init", "done"} \/ Waiting(s) \/ Returned(s))
    /\ \A s \in Sessions : Waiting(s) ~> Returned(s)

C17_Witness ==
    \E s \in Sessions :
        /\ Returned(s)
        /\ "sleep" \in Events(s)
        /\ call[s].messages = 0
        /\ delivered = 0

====
